---- MODULE Spec2Model ----
(***************************************************************************)
(* A model of the tiered retrieval pipeline of the semantic retrieval      *)
(* middleware: MemoryInterface.retrieve (src/memory_interface.py) with its *)
(* L1 exact cache (OrderedDict, LRU), its L2 cache (Redis), its L3         *)
(* semantic cache (deque, FIFO), the vector store (src/db/crud.py), the    *)
(* cross-encoder reranker (src/models/reranker/cross_encoder.py), the      *)
(* embedding client and the clear-cache / embed-and-store routes            *)
(* (src/api/test_routes.py).                                               *)
(*                                                                         *)
(* Queries are numbered 1, 2, ... (each number stands for one query text), *)
(* documents are the texts "a", "b", "c".  A retrieve call is an asyncio   *)
(* task: it runs atomically between its awaits (redis get, find_similar,   *)
(* redis set); the embedding call and the reranker are synchronous.        *)
(***************************************************************************)
EXTENDS Integers, Sequences, FiniteSets, TLC

(***************************************************************************)
(* Bounds of the model.                                                    *)
(***************************************************************************)
NumQueries == 3
MaxLimit == 2
MaxOps == 4
MaxRows == 3
NumProcs == 2
MaxConcOps == 2
MaxCapQueries == 53
MaxRequery == 1
MaxSlowOps == 1
MaxEntries == 3
MaxDocs == 3
MaxL1Ops == 2
MaxSeqOps == 2
MaxProbeOps == 3

(***************************************************************************)
(* Program constants.                                                      *)
(***************************************************************************)
exact_cache_max == 50
semantic_cache_maxlen == 10
\* _cosine_similarity_threshold = 0.90, kept as the fraction 9/10
ThresholdNum == 9
ThresholdDen == 10
\* the limit retrieve and the route default to
DefaultLimit == 5

None == <<"None">>

Procs == 1..NumProcs

Min(a, b) == IF a < b THEN a ELSE b

(***************************************************************************)
(* The embedder, as a fixed assignment of vectors to query texts.  Query 3 *)
(* is within the threshold of queries 1 and 2 (closer to 2), which are not *)
(* within it of each other; query 4 embeds to the zero vector; the others  *)
(* are pairwise further apart than the threshold.                          *)
(***************************************************************************)
QueryVectors ==
    << <<10, 0>>, <<8, 6>>, <<9, 4>>, <<0, 0>>, <<4, 9>>, <<-1, 10>>,
       <<-6, 8>>, <<-9, 4>>, <<-10, -1>>, <<-8, -6>>, <<-4, -9>>,
       <<1, -10>>, <<6, -8>> >>

embed_text(q) == QueryVectors[((q - 1) % Len(QueryVectors)) + 1]

(***************************************************************************)
(* Cache key f"{query}::{limit}".                                          *)
(***************************************************************************)
_make_cache_key(q, k) == <<q, "::", k>>

(***************************************************************************)
(* json.dumps / json.loads of a list of strings, as a token sequence.      *)
(***************************************************************************)
RECURSIVE JsonItems(_)
JsonItems(r) ==
    IF Len(r) = 0 THEN <<>>
    ELSE IF Len(r) = 1 THEN <<r[1]>>
    ELSE <<r[1], ",">> \o JsonItems(Tail(r))

\* the variant that writes the items without separators
JsonDumpsUnseparated(r) == <<"[">> \o r \o <<"]">>

json_dumps(r) == <<"[">> \o JsonItems(r) \o <<"]">>

json_loads(s) ==
    LET inner == SubSeq(s, 2, Len(s) - 1)
    IN  [i \in 1..((Len(inner) + 1) \div 2) |-> inner[2 * i - 1]]

\* Python truthiness of an Optional[str] / Optional[list]
Truthy(x) == x # None /\ Len(x) > 0

(***************************************************************************)
(* L1: OrderedDict, oldest first.  An entry is <<key, value>>.             *)
(***************************************************************************)
Keys(c) == {c[i][1] : i \in 1..Len(c)}

IndexOf(c, k) == CHOOSE i \in 1..Len(c) : c[i][1] = k

Lookup(c, k) == c[IndexOf(c, k)][2]

Without(c, i) == SubSeq(c, 1, i - 1) \o SubSeq(c, i + 1, Len(c))

\* the variant that leaves the key where it is
KeepPosition(c, k) == c

move_to_end(c, k) == Append(Without(c, IndexOf(c, k)), c[IndexOf(c, k)])

\* OrderedDict.__setitem__: an existing key keeps its position
SetItem(c, k, v) ==
    IF k \in Keys(c)
    THEN [c EXCEPT ![IndexOf(c, k)] = <<k, v>>]
    ELSE Append(c, <<k, v>>)

\* the variant that overwrites a present key where it is
SetExactCacheInPlace(c, k, v) ==
    LET set == SetItem(c, k, v)
    IN  IF Len(set) > exact_cache_max THEN Tail(set) ELSE set

\* the variant without the eviction
SetExactCacheNoEvict(c, k, v) ==
    SetItem(IF k \in Keys(c) THEN move_to_end(c, k) ELSE c, k, v)

_set_exact_cache(c, k, v) ==
    LET moved == IF k \in Keys(c) THEN move_to_end(c, k) ELSE c
        set == SetItem(moved, k, v)
    IN  IF Len(set) > exact_cache_max THEN Tail(set) ELSE set

(***************************************************************************)
(* L3: deque(maxlen=10) of <<query_vector, results>>.                      *)
(***************************************************************************)
\* the variant of a deque without maxlen
DequeAppendUnbounded(d, e) == Append(d, e)

\* the variant that makes room by dropping the newest entry
DequeAppendDropsNewest(d, e) ==
    IF Len(d) >= semantic_cache_maxlen
    THEN Append(SubSeq(d, 1, Len(d) - 1), e)
    ELSE Append(d, e)

deque_append(d, e) ==
    IF Len(d) >= semantic_cache_maxlen THEN Append(Tail(d), e) ELSE Append(d, e)

Dot(a, b) == a[1] * b[1] + a[2] * b[2]

\* the variant without the zero-norm return of lines 57-58
SimilarityUnguarded(a, b) ==
    /\ Dot(a, b) >= 0
    /\ ThresholdDen * ThresholdDen * Dot(a, b) * Dot(a, b)
         >= ThresholdNum * ThresholdNum * Dot(a, a) * Dot(b, b)

\* _cosine_similarity(a, b) >= _cosine_similarity_threshold, in exact arithmetic:
\* 0.0 when a norm is zero, else dot / (norm_a * norm_b)
SimilarityReachesThreshold(a, b) ==
    IF Dot(a, a) = 0 \/ Dot(b, b) = 0
    THEN FALSE
    ELSE /\ Dot(a, b) > 0
         /\ ThresholdDen * ThresholdDen * Dot(a, b) * Dot(a, b)
              >= ThresholdNum * ThresholdNum * Dot(a, a) * Dot(b, b)

\* the variant that returns the results of the most similar entry
RECURSIVE FindBestSemanticHit(_, _)
FindBestSemanticHit(d, v) ==
    IF Len(d) = 0 THEN None
    ELSE LET later == FindBestSemanticHit(Tail(d), v)
             better == \E i \in 2..Len(d) :
                           /\ SimilarityReachesThreshold(v, d[i][1])
                           /\ Dot(v, d[i][1]) * Dot(v, d[i][1]) * Dot(d[1][1], d[1][1])
                                > Dot(v, d[1][1]) * Dot(v, d[1][1]) * Dot(d[i][1], d[i][1])
         IN  IF SimilarityReachesThreshold(v, d[1][1]) /\ ~better THEN d[1][2] ELSE later

\* the scan of lines 67-70: the results of the first entry, in iteration
\* order, within the threshold; None when the loop ends
RECURSIVE _find_semantic_cache_hit(_, _)
_find_semantic_cache_hit(d, v) ==
    IF Len(d) = 0 THEN None
    ELSE IF SimilarityReachesThreshold(v, d[1][1]) THEN d[1][2]
    ELSE _find_semantic_cache_hit(Tail(d), v)

(***************************************************************************)
(* The reranker: sorted(zip(scores, docs), reverse=True).                  *)
(***************************************************************************)
DocOrd(d) == CASE d = "a" -> 1 [] d = "b" -> 2 [] d = "c" -> 3

\* the cross-encoder's score of (query, doc)
Score(q, d) == (q * DocOrd(d)) % 3

\* (score, doc) tuple order of Python
PairGreater(q, d1, d2) ==
    \/ Score(q, d1) > Score(q, d2)
    \/ Score(q, d1) = Score(q, d2) /\ DocOrd(d1) > DocOrd(d2)

RECURSIVE InsertDesc(_, _, _)
InsertDesc(q, d, s) ==
    IF Len(s) = 0 THEN <<d>>
    ELSE IF PairGreater(q, s[1], d) THEN <<s[1]>> \o InsertDesc(q, d, Tail(s))
    ELSE <<d>> \o s

RECURSIVE SortedDesc(_, _)
SortedDesc(q, docs) ==
    IF Len(docs) = 0 THEN <<>>
    ELSE InsertDesc(q, docs[1], SortedDesc(q, Tail(docs)))

\* the variant that keeps one copy of each document
RECURSIVE Distinct(_)
Distinct(docs) ==
    IF Len(docs) = 0 THEN <<>>
    ELSE <<docs[1]>> \o Distinct(SelectSeq(Tail(docs), LAMBDA d : d # docs[1]))

RerankDistinct(q, docs) == SortedDesc(q, Distinct(docs))

_rerank(q, docs) == SortedDesc(q, docs)

(***************************************************************************)
(* The vector store: rows <<vector, text>> in id order.                    *)
(***************************************************************************)
\* cosine similarity of row vector a to q is greater than that of b
\* (|q| cancels; NaN distances, of a zero vector, order as ties)
Closer(a, b, q) ==
    LET x == Dot(a, q)
        y == Dot(b, q)
        na == Dot(a, a)
        nb == Dot(b, b)
    IN  IF na = 0 \/ nb = 0 \/ Dot(q, q) = 0 THEN FALSE
        ELSE IF x >= 0 /\ y < 0 THEN TRUE
        ELSE IF x < 0 /\ y >= 0 THEN FALSE
        ELSE IF x >= 0 THEN x * x * nb > y * y * na
        ELSE x * x * nb < y * y * na

\* rows ordered by cosine distance to q, ties in id order
RECURSIVE OrderByDistance(_, _)
OrderByDistance(rows, q) ==
    IF Len(rows) = 0 THEN <<>>
    ELSE LET best == CHOOSE i \in 1..Len(rows) :
                        /\ \A j \in 1..Len(rows) : ~Closer(rows[j][1], rows[i][1], q)
                        /\ \A j \in 1..(i - 1) : Closer(rows[i][1], rows[j][1], q)
         IN  <<rows[best]>> \o OrderByDistance(Without(rows, best), q)

find_similar(v, rows, k) ==
    LET ordered == OrderByDistance(rows, v)
    IN  [i \in 1..Min(k, Len(ordered)) |-> ordered[i][2]]

(***************************************************************************)
(* State.                                                                  *)
(*   exact_cache, semantic_cache : the MemoryInterface's L1 and L3         *)
(*   redis : L2, a function from the keys present to their values          *)
(*   db : the rows of the vector store                                     *)
(*   task[p] : the latest retrieve call of client p: its position (pc),    *)
(*     its arguments and locals, and a record of what the call has done:   *)
(*     path, called (collaborators invoked), wrote (caches written),       *)
(*     raised (the collaborator that raised) and follows (how it follows   *)
(*     the call of p that completed before it).                            *)
(*     The record of a finished call is dropped when another operation     *)
(*     starts.                                                             *)
(*   clear_pc : the position of the clear-cache handler                    *)
(*   nops, nfresh : counters that bound the runs     *)
(*   dispatch[p] : the LoggingMiddleware's handling of client p's latest   *)
(*     request: its position, its request_id and the response's status    *)
(*     and headers                                                         *)
(*   session_id_var[p] : the context variable, in the context of p's       *)
(*     requests                                                            *)
(***************************************************************************)
VARIABLES exact_cache, semantic_cache, redis, db, task, clear_pc,
          nops, nfresh, dispatch, session_id_var

vars == <<exact_cache, semantic_cache, redis, db, task, clear_pc,
          nops, nfresh, dispatch, session_id_var>>

IdleTask ==
    [pc |-> "idle", query |-> 0, limit |-> 0, rerank |-> TRUE, cached |-> None,
     query_vector |-> <<0, 0>>, results |-> <<>>, path |-> "none",
     called |-> {}, wrote |-> {},
     raised |-> "none", follows |-> "none"]

InitialRows == << <<(<<10, 0>>), "a">>, <<(<<0, 10>>), "b">> >>

\* the vector the write path stores with a text
DocVector(t) == CASE t = "a" -> <<10, 0>> [] t = "b" -> <<0, 10>> [] t = "c" -> <<9, 4>>

EmptyRedis == [k \in {} |-> None]

IdleDispatch == [pc |-> "idle", request_id |-> 0, status |-> 0, headers |-> {}]

\* no request has been received
NoRequests ==
    /\ dispatch = [p \in Procs |-> IdleDispatch]
    /\ session_id_var = [p \in Procs |-> <<>>]

Init ==
    /\ exact_cache = <<>>
    /\ semantic_cache = <<>>
    /\ redis = EmptyRedis
    /\ db = InitialRows
    /\ task = [p \in Procs |-> IdleTask]
    /\ clear_pc = "idle"
    /\ nops = 0
    /\ nfresh = 0
    /\ NoRequests

cache_key(p) == _make_cache_key(task[p].query, task[p].limit)

Finished(p) == task[p].pc \in {"idle", "done", "error", "cancelled"}

\* no operation is in flight
Quiet == clear_pc = "idle" /\ \A p \in Procs : Finished(p)

\* how a call of p for key that starts now follows p's last call: "none" when
\* that call was for another key or another operation has started since,
\* else that call's end: "done", "empty" (done on an empty embedding),
\* "error" or "cancelled"
Follows(p, key) ==
    IF task[p].pc = "idle" \/ cache_key(p) # key THEN "none"
    ELSE IF task[p].pc = "done" /\ task[p].path = "empty" THEN "empty"
    ELSE task[p].pc

\* the records of the finished calls are dropped
Forget == [p \in Procs |-> IF Finished(p) THEN IdleTask ELSE task[p]]

\* the variant whose probe is suspended between the membership test and the
\* read, so that a clear-cache that has flushed redis empties L1 in between
CallProbeSuspends(p, q, k, rr) ==
    /\ Finished(p)
    /\ nops' = nops + 1
    /\ LET key == _make_cache_key(q, k)
           t == [IdleTask EXCEPT !.query = q, !.limit = k, !.rerank = rr,
                                 !.follows = Follows(p, key)]
       IN  IF key \in Keys(exact_cache)
           THEN IF clear_pc = "flushed"
                THEN /\ exact_cache' = <<>>
                     /\ semantic_cache' = <<>>
                     /\ clear_pc' = "idle"
                     /\ task' = [Forget EXCEPT ![p] =
                            [t EXCEPT !.pc = "error", !.path = "L1",
                                      !.raised = "KeyError"]]
                ELSE /\ exact_cache' = move_to_end(exact_cache, key)
                     /\ task' = [Forget EXCEPT ![p] =
                            [t EXCEPT !.pc = "done", !.path = "L1",
                                      !.results = Lookup(exact_cache, key)]]
                     /\ UNCHANGED <<semantic_cache, clear_pc>>
           ELSE /\ exact_cache' = exact_cache
                /\ task' = [Forget EXCEPT ![p] =
                       [t EXCEPT !.pc = "redis_get", !.called = {"redis_get"}]]
                /\ UNCHANGED <<semantic_cache, clear_pc>>
    /\ UNCHANGED <<redis, db>>

(***************************************************************************)
(* retrieve, lines 89-98: the key, the L1 probe, and on a miss the redis   *)
(* get is awaited.                                                         *)
(***************************************************************************)
Call(p, q, k, rr) ==
    /\ Finished(p)
    /\ nops' = nops + 1
    /\ LET key == _make_cache_key(q, k)
           t == [IdleTask EXCEPT !.query = q, !.limit = k, !.rerank = rr,
                                 !.follows = Follows(p, key)]
       IN  IF key \in Keys(exact_cache)
           THEN /\ exact_cache' = move_to_end(exact_cache, key)
                /\ task' = [Forget EXCEPT ![p] =
                       [t EXCEPT !.pc = "done", !.path = "L1",
                                 !.results = Lookup(exact_cache, key)]]
           ELSE /\ exact_cache' = exact_cache
                /\ task' = [Forget EXCEPT ![p] =
                       [t EXCEPT !.pc = "redis_get", !.called = {"redis_get"}]]
    /\ UNCHANGED <<semantic_cache, redis, db, clear_pc>>

\* the variant in which the stored value has expired
RedisGetExpired(p) ==
    /\ task[p].pc = "redis_get"
    /\ task' = [task EXCEPT ![p].pc = "redis_got", ![p].cached = None]
    /\ UNCHANGED <<exact_cache, semantic_cache, redis, db, clear_pc,
                   nops, nfresh>>
    /\ UNCHANGED <<dispatch, session_id_var>>

\* the redis server answers the GET
RedisGetReply(p) ==
    /\ task[p].pc = "redis_get"
    /\ task' = [task EXCEPT ![p].pc = "redis_got",
                            ![p].cached = IF cache_key(p) \in DOMAIN redis
                                          THEN redis[cache_key(p)] ELSE None]
    /\ UNCHANGED <<exact_cache, semantic_cache, redis, db, clear_pc,
                   nops, nfresh>>
    /\ UNCHANGED <<dispatch, session_id_var>>

(***************************************************************************)
(* retrieve, lines 99-126, resumed with the GET's answer.  Each branch     *)
(* gives the task and L1 after it.                                         *)
(***************************************************************************)
Update(p, t) == task' = [task EXCEPT ![p] = t]

\* the variant that has embedded the query before looking at the L2 answer
L2HitAfterEmbed(p) ==
    /\ exact_cache' = _set_exact_cache(exact_cache, cache_key(p), json_loads(task[p].cached))
    /\ Update(p, [task[p] EXCEPT !.pc = "done", !.path = "L2",
                                 !.results = json_loads(task[p].cached),
                                 !.called = @ \cup {"embed"},
                                 !.wrote = @ \cup {"L1"}])

\* the variant that returns the L2 value without promoting it to L1
L2HitUnpromoted(p) ==
    /\ UNCHANGED exact_cache
    /\ Update(p, [task[p] EXCEPT !.pc = "done", !.path = "L2",
                                 !.results = json_loads(task[p].cached)])

\* lines 99-103: L2 hit, promoted to L1
L2Hit(p) ==
    /\ exact_cache' = _set_exact_cache(exact_cache, cache_key(p), json_loads(task[p].cached))
    /\ Update(p, [task[p] EXCEPT !.pc = "done", !.path = "L2",
                                 !.results = json_loads(task[p].cached),
                                 !.wrote = @ \cup {"L1"}])

\* line 106: embed_text raises
EmbedRaises(p) ==
    /\ Update(p, [task[p] EXCEPT !.pc = "error", !.raised = "embed",
                                 !.called = @ \cup {"embed"}])
    /\ UNCHANGED exact_cache

\* the variant that caches the empty result
EmptyEmbeddingCached(p) ==
    /\ exact_cache' = _set_exact_cache(exact_cache, cache_key(p), <<>>)
    /\ Update(p, [task[p] EXCEPT !.pc = "done", !.path = "empty", !.results = <<>>,
                                 !.called = @ \cup {"embed"}])

\* lines 107-108: no embeddings, return []
EmptyEmbedding(p) ==
    /\ Update(p, [task[p] EXCEPT !.pc = "done", !.path = "empty", !.results = <<>>,
                                 !.called = @ \cup {"embed"}])
    /\ UNCHANGED exact_cache

semantic_cache_result(p) ==
    _find_semantic_cache_hit(semantic_cache, embed_text(task[p].query))

\* line 118: the reranker raises on the L3 hit
L3HitRerankRaises(p) ==
    /\ Update(p, [task[p] EXCEPT !.pc = "error", !.path = "L3", !.raised = "rerank",
                                 !.query_vector = embed_text(task[p].query),
                                 !.called = @ \cup {"embed", "rerank"}])
    /\ UNCHANGED exact_cache

\* lines 115-121: L3 hit, reranked on the query, promoted to L1; redis set awaited
L3Hit(p) ==
    LET reranked == IF task[p].rerank
                    THEN _rerank(task[p].query, semantic_cache_result(p))
                    ELSE semantic_cache_result(p)
    IN  /\ exact_cache' = _set_exact_cache(exact_cache, cache_key(p), reranked)
        /\ Update(p, [task[p] EXCEPT !.pc = "redis_set", !.path = "L3",
                                     !.query_vector = embed_text(task[p].query),
                                     !.results = reranked,
                                     !.called = @ \cup {"embed", "redis_set"}
                                         \cup (IF task[p].rerank THEN {"rerank"} ELSE {}),
                                     !.wrote = @ \cup {"L1"}])

\* the variant that admits a placeholder to L1 before the fetch
L3MissAdmitsEarly(p) ==
    /\ exact_cache' = _set_exact_cache(exact_cache, cache_key(p), <<>>)
    /\ Update(p, [task[p] EXCEPT !.pc = "find_similar", !.path = "miss",
                                 !.query_vector = embed_text(task[p].query),
                                 !.called = @ \cup {"embed", "find_similar"}])

\* lines 124-126: miss, find_similar awaited
L3Miss(p) ==
    /\ Update(p, [task[p] EXCEPT !.pc = "find_similar", !.path = "miss",
                                 !.query_vector = embed_text(task[p].query),
                                 !.called = @ \cup {"embed", "find_similar"}])
    /\ UNCHANGED exact_cache

\* emb: what the embedder does ("ok", "empty" or "raise"); rok: whether the
\* reranker answers
AfterRedisGet(p, emb, rok) ==
    /\ task[p].pc = "redis_got"
    /\ IF Truthy(task[p].cached) THEN L2Hit(p)
       ELSE IF emb = "raise" THEN EmbedRaises(p)
       ELSE IF emb = "empty" THEN EmptyEmbedding(p)
       ELSE IF Truthy(semantic_cache_result(p)) /\ task[p].rerank /\ ~rok
       THEN L3HitRerankRaises(p)
       ELSE IF Truthy(semantic_cache_result(p)) THEN L3Hit(p)
       ELSE L3Miss(p)
    /\ UNCHANGED <<semantic_cache, redis, db, clear_pc, nops, nfresh>>
    /\ UNCHANGED <<dispatch, session_id_var>>

\* the vector store answers the query
FindSimilarReply(p) ==
    /\ task[p].pc = "find_similar"
    /\ task' = [task EXCEPT ![p].pc = "found",
                            ![p].results = find_similar(task[p].query_vector, db, task[p].limit)]
    /\ UNCHANGED <<exact_cache, semantic_cache, redis, db, clear_pc,
                   nops, nfresh>>
    /\ UNCHANGED <<dispatch, session_id_var>>

(***************************************************************************)
(* retrieve, lines 126-132, resumed with the rows.                         *)
(***************************************************************************)
\* the variant that falls back to the un-reranked results when the reranker raises
RerankFallsBack(p) ==
    /\ exact_cache' = _set_exact_cache(exact_cache, cache_key(p), task[p].results)
    /\ semantic_cache' = deque_append(semantic_cache, <<task[p].query_vector, task[p].results>>)
    /\ Update(p, [task[p] EXCEPT !.pc = "redis_set", !.raised = "rerank",
                                 !.called = @ \cup {"rerank", "redis_set"},
                                 !.wrote = @ \cup {"L1", "L3"}])

\* line 128: the reranker raises
RerankRaises(p) ==
    /\ Update(p, [task[p] EXCEPT !.pc = "error", !.raised = "rerank",
                                 !.called = @ \cup {"rerank"}])
    /\ UNCHANGED <<exact_cache, semantic_cache>>

\* the variant that returns the results without saving them to the caches
ReturnUnsaved(p) ==
    LET reranked == IF task[p].rerank THEN _rerank(task[p].query, task[p].results)
                    ELSE task[p].results
    IN  /\ Update(p, [task[p] EXCEPT !.pc = "done", !.results = reranked,
                                     !.called = @ \cup (IF task[p].rerank THEN {"rerank"} ELSE {})])
        /\ UNCHANGED <<exact_cache, semantic_cache>>

\* the variant that appends the list as fetched, before the rerank, to L3
AdmitFetchedToL3(p) ==
    LET reranked == IF task[p].rerank THEN _rerank(task[p].query, task[p].results)
                    ELSE task[p].results
    IN  /\ exact_cache' = _set_exact_cache(exact_cache, cache_key(p), reranked)
        /\ semantic_cache' = deque_append(semantic_cache, <<task[p].query_vector, task[p].results>>)
        /\ Update(p, [task[p] EXCEPT !.pc = "redis_set", !.results = reranked,
                                     !.called = @ \cup {"redis_set"}
                                         \cup (IF task[p].rerank THEN {"rerank"} ELSE {}),
                                     !.wrote = @ \cup {"L1", "L3"}])

\* lines 128-132: rerank, admit to L1 and L3; redis set awaited
Admit(p) ==
    LET reranked == IF task[p].rerank THEN _rerank(task[p].query, task[p].results)
                    ELSE task[p].results
    IN  /\ exact_cache' = _set_exact_cache(exact_cache, cache_key(p), reranked)
        /\ semantic_cache' = deque_append(semantic_cache, <<task[p].query_vector, reranked>>)
        /\ Update(p, [task[p] EXCEPT !.pc = "redis_set", !.results = reranked,
                                     !.called = @ \cup {"redis_set"}
                                         \cup (IF task[p].rerank THEN {"rerank"} ELSE {}),
                                     !.wrote = @ \cup {"L1", "L3"}])

AfterFindSimilar(p, rok) ==
    /\ task[p].pc = "found"
    /\ IF task[p].rerank /\ ~rok THEN RerankRaises(p) ELSE Admit(p)
    /\ UNCHANGED <<redis, db, clear_pc, nops, nfresh>>
    /\ UNCHANGED <<dispatch, session_id_var>>

\* the redis server performs the SET (lines 121 and 132)
RedisSetReply(p) ==
    /\ task[p].pc = "redis_set"
    /\ redis' = (cache_key(p) :> json_dumps(task[p].results)) @@ redis
    /\ task' = [task EXCEPT ![p].pc = "redis_set_done",
                            ![p].wrote = task[p].wrote \cup {"L2"}]
    /\ UNCHANGED <<exact_cache, semantic_cache, db, clear_pc,
                   nops, nfresh>>
    /\ UNCHANGED <<dispatch, session_id_var>>

\* retrieve, lines 122 and 133: resumed after the SET, it returns
Return(p) ==
    /\ task[p].pc = "redis_set_done"
    /\ task' = [task EXCEPT ![p].pc = "done"]
    /\ UNCHANGED <<exact_cache, semantic_cache, redis, db, clear_pc,
                   nops, nfresh>>
    /\ UNCHANGED <<dispatch, session_id_var>>

\* the awaited collaborator (redis get, find_similar, redis set) raises
Raise(p) ==
    /\ task[p].pc \in {"redis_get", "find_similar", "redis_set"}
    /\ task' = [task EXCEPT ![p].pc = "error", ![p].raised = task[p].pc]
    /\ UNCHANGED <<exact_cache, semantic_cache, redis, db, clear_pc,
                   nops, nfresh>>
    /\ UNCHANGED <<dispatch, session_id_var>>

\* the task is cancelled while suspended in an await, before or after the
\* collaborator has acted
Cancel(p) ==
    /\ task[p].pc \in {"redis_get", "redis_got", "find_similar", "found",
                       "redis_set", "redis_set_done"}
    /\ task' = [task EXCEPT ![p].pc = "cancelled"]
    /\ UNCHANGED <<exact_cache, semantic_cache, redis, db, clear_pc,
                   nops, nfresh>>
    /\ UNCHANGED <<dispatch, session_id_var>>

(***************************************************************************)
(* clear_cache: flushdb is awaited, then L1 and L3 are cleared.            *)
(***************************************************************************)
ClearStart ==
    /\ clear_pc = "idle"
    /\ clear_pc' = "flushdb"
    /\ nops' = nops + 1
    /\ task' = Forget
    /\ UNCHANGED <<exact_cache, semantic_cache, redis, db, nfresh>>
    /\ UNCHANGED <<dispatch, session_id_var>>

FlushReply ==
    /\ clear_pc = "flushdb"
    /\ redis' = EmptyRedis
    /\ clear_pc' = "flushed"
    /\ UNCHANGED <<exact_cache, semantic_cache, db, task, nops, nfresh>>
    /\ UNCHANGED <<dispatch, session_id_var>>

ClearFinish ==
    /\ clear_pc = "flushed"
    /\ exact_cache' = <<>>
    /\ semantic_cache' = <<>>
    /\ clear_pc' = "idle"
    /\ UNCHANGED <<redis, db, task, nops, nfresh>>
    /\ UNCHANGED <<dispatch, session_id_var>>

\* the variant of the write path that invalidates the in-process caches
StoreInvalidates(t) ==
    /\ Len(db) < MaxRows
    /\ db' = Append(db, <<DocVector(t), t>>)
    /\ exact_cache' = <<>>
    /\ semantic_cache' = <<>>
    /\ task' = Forget
    /\ nops' = nops + 1
    /\ UNCHANGED <<redis, clear_pc, nfresh>>
    /\ UNCHANGED <<dispatch, session_id_var>>

\* the write path: embed-and-store adds a row
Store(t) ==
    /\ Len(db) < MaxRows
    /\ db' = Append(db, <<DocVector(t), t>>)
    /\ task' = Forget
    /\ nops' = nops + 1
    /\ UNCHANGED <<exact_cache, semantic_cache, redis, clear_pc, nfresh>>
    /\ UNCHANGED <<dispatch, session_id_var>>

\* the service restarts: a new MemoryInterface, redis and the store persist
Restart ==
    /\ nops' = nops + 1
    /\ exact_cache' = <<>>
    /\ semantic_cache' = <<>>
    /\ task' = [p \in Procs |-> IdleTask]
    /\ clear_pc' = "idle"
    /\ UNCHANGED <<redis, db, nfresh>>
    /\ UNCHANGED <<dispatch, session_id_var>>

(***************************************************************************)
(* Spec: the service used by one client at a time (an operation starts     *)
(* when no other is in flight), with every fault.                          *)
(***************************************************************************)
Queries == 1..NumQueries
Limits == 1..MaxLimit
EmbedOutcomes == {"ok", "empty", "raise"}

CallAny(p) ==
        /\ \E q \in Queries, k \in Limits, rr \in BOOLEAN : Call(p, q, k, rr)
    /\ UNCHANGED nfresh
    /\ UNCHANGED <<dispatch, session_id_var>>

Step(p) ==
    \/ RedisGetReply(p)
    \/ \E emb \in EmbedOutcomes, rok \in BOOLEAN : AfterRedisGet(p, emb, rok)
    \/ FindSimilarReply(p)
    \/ \E rok \in BOOLEAN : AfterFindSimilar(p, rok)
    \/ RedisSetReply(p)
    \/ Return(p)
    \/ Raise(p)
    \/ Cancel(p)

Next ==
    \/ Quiet /\ nops < MaxOps /\ CallAny(1)
    \/ Step(1)
    \/ Quiet /\ nops < MaxOps /\ ClearStart
    \/ FlushReply
    \/ ClearFinish
    \/ Quiet /\ nops < MaxOps /\ \E t \in {"c"} : Store(t)
    \/ Quiet /\ nops < MaxOps /\ Restart

Spec == Init /\ [][Next]_vars

(***************************************************************************)
(* SpecOk: the service used by one client at a time, no collaborator       *)
(* fails and no task is cancelled.                                         *)
(***************************************************************************)
StepOk(p) ==
    \/ RedisGetReply(p)
    \/ AfterRedisGet(p, "ok", TRUE)
    \/ FindSimilarReply(p)
    \/ AfterFindSimilar(p, TRUE)
    \/ RedisSetReply(p)
    \/ Return(p)

NextOk ==
    \/ Quiet /\ nops < MaxOps /\ CallAny(1)
    \/ StepOk(1)
    \/ Quiet /\ nops < MaxOps /\ ClearStart
    \/ FlushReply
    \/ ClearFinish
    \/ Quiet /\ nops < MaxOps /\ \E t \in {"c"} : Store(t)
    \/ Quiet /\ nops < MaxOps /\ Restart

SpecOk == Init /\ [][NextOk]_vars

(***************************************************************************)
(* SpecFresh: as SpecOk, on a deployment whose vector store is still       *)
(* empty; embed-and-store adds its rows.                                   *)
(***************************************************************************)
InitFresh ==
    /\ exact_cache = <<>>
    /\ semantic_cache = <<>>
    /\ redis = EmptyRedis
    /\ db = <<>>
    /\ task = [p \in Procs |-> IdleTask]
    /\ clear_pc = "idle"
    /\ nops = 0
    /\ nfresh = 0
    /\ NoRequests

SpecFresh == InitFresh /\ [][NextOk]_vars

(***************************************************************************)
(* SpecLookup: _find_semantic_cache_hit applied to any L3 of up to         *)
(* MaxEntries entries and any query vector.                                *)
(***************************************************************************)
LookupVectors == {<<10, 0>>, <<8, 6>>, <<9, 4>>, <<0, 0>>, <<0, 10>>}

LookupEntries == LookupVectors \X {<<>>, <<"a">>, <<"b">>}

InitLookup ==
    /\ exact_cache = <<>>
    /\ semantic_cache \in UNION {[1..n -> LookupEntries] : n \in 0..MaxEntries}
    /\ redis = EmptyRedis
    /\ db = InitialRows
    /\ \E v \in LookupVectors :
          task = [p \in Procs |-> IF p = 1
                                  THEN [IdleTask EXCEPT !.pc = "lookup", !.query_vector = v]
                                  ELSE IdleTask]
    /\ clear_pc = "idle"
    /\ nops = 0
    /\ nfresh = 0
    /\ NoRequests

\* line 114: the lookup, applied to the query vector
FindSemanticCacheHit(p) ==
    /\ task[p].pc = "lookup"
    /\ task' = [task EXCEPT ![p].pc = "looked_up",
                            ![p].results = _find_semantic_cache_hit(semantic_cache,
                                                                    task[p].query_vector)]
    /\ UNCHANGED <<exact_cache, semantic_cache, redis, db, clear_pc, nops, nfresh>>
    /\ UNCHANGED <<dispatch, session_id_var>>

NextLookup == FindSemanticCacheHit(1)

SpecLookup == InitLookup /\ [][NextLookup]_vars

(***************************************************************************)
(* SpecRerank: _rerank applied to any query and any list of up to MaxDocs  *)
(* documents, duplicates included.                                         *)
(***************************************************************************)
Docs == {"a", "b", "c"}

InitRerank ==
    /\ exact_cache = <<>>
    /\ semantic_cache = <<>>
    /\ redis = EmptyRedis
    /\ db = InitialRows
    /\ \E q \in Queries, docs \in UNION {[1..n -> Docs] : n \in 0..MaxDocs} :
          task = [p \in Procs |-> IF p = 1
                                  THEN [IdleTask EXCEPT !.pc = "rerank", !.query = q,
                                                        !.results = docs]
                                  ELSE IdleTask]
    /\ clear_pc = "idle"
    /\ nops = 0
    /\ nfresh = 0
    /\ NoRequests

\* lines 118 and 128: the list is replaced by its rerank
Rerank(p) ==
    /\ task[p].pc = "rerank"
    /\ task' = [task EXCEPT ![p].pc = "reranked",
                            ![p].results = _rerank(task[p].query, task[p].results)]
    /\ UNCHANGED <<exact_cache, semantic_cache, redis, db, clear_pc, nops, nfresh>>
    /\ UNCHANGED <<dispatch, session_id_var>>

NextRerank == Rerank(1)

SpecRerank == InitRerank /\ [][NextRerank]_vars

(***************************************************************************)
(* SpecL1: the two L1 operations, the hit of lines 92-95 and                *)
(* _set_exact_cache, applied up to MaxL1Ops times to an L1 that is full or *)
(* up to MaxL1Ops entries short of it, with present and new keys.          *)
(***************************************************************************)
InitL1 ==
    /\ \E n \in (exact_cache_max - MaxL1Ops)..exact_cache_max :
          exact_cache = [i \in 1..n |-> <<_make_cache_key(i, DefaultLimit), <<"a">>>>]
    /\ semantic_cache = <<>>
    /\ redis = EmptyRedis
    /\ db = InitialRows
    /\ task = [p \in Procs |-> IdleTask]
    /\ clear_pc = "idle"
    /\ nops = 0
    /\ nfresh = 0
    /\ NoRequests

\* lines 92-95: the key is in L1, it is moved to the end and its list returned
L1Hit(p, q) ==
    /\ nops < MaxL1Ops
    /\ nops' = nops + 1
    /\ _make_cache_key(q, DefaultLimit) \in Keys(exact_cache)
    /\ exact_cache' = move_to_end(exact_cache, _make_cache_key(q, DefaultLimit))
    /\ task' = [task EXCEPT ![p] =
                   [IdleTask EXCEPT !.pc = "l1_hit", !.query = q, !.limit = DefaultLimit,
                                    !.results = Lookup(exact_cache,
                                                       _make_cache_key(q, DefaultLimit))]]
    /\ UNCHANGED <<semantic_cache, redis, db, clear_pc, nfresh, dispatch, session_id_var>>

\* lines 40-48: _set_exact_cache(key, value)
L1Set(p, q, v) ==
    /\ nops < MaxL1Ops
    /\ nops' = nops + 1
    /\ exact_cache' = _set_exact_cache(exact_cache, _make_cache_key(q, DefaultLimit), v)
    /\ task' = [task EXCEPT ![p] =
                   [IdleTask EXCEPT !.pc = "l1_set", !.query = q, !.limit = DefaultLimit,
                                    !.results = v]]
    /\ UNCHANGED <<semantic_cache, redis, db, clear_pc, nfresh, dispatch, session_id_var>>

NextL1 ==
    \/ \E q \in 1..exact_cache_max : L1Hit(1, q)
    \/ \E q \in 1..(exact_cache_max + MaxL1Ops) : L1Set(1, q, <<"b">>)

SpecL1 == InitL1 /\ [][NextL1]_vars

(***************************************************************************)
(* SpecRoute: the /test/retrieve route called by one client at a time with *)
(* any limit the route accepts, 0 included (limit: int = 5 is not          *)
(* validated); the route passes no rerank argument, so rerank is True.     *)
(***************************************************************************)
RouteLimits == 0..MaxLimit

test_retrieve(p, q, k) ==
    /\ Call(p, q, k, TRUE)
    /\ UNCHANGED nfresh
    /\ UNCHANGED <<dispatch, session_id_var>>

NextRoute ==
    \/ Quiet /\ nops < MaxOps /\ \E q \in Queries, k \in RouteLimits : test_retrieve(1, q, k)
    \/ StepOk(1)

SpecRoute == Init /\ [][NextRoute]_vars

(***************************************************************************)
(* SpecHttp: the requests of one client through LoggingMiddleware.dispatch *)
(* to the /test/retrieve route, any collaborator of retrieve may fail.     *)
(* The request ids (uuid4) are numbered 1, 2, ...                          *)
(***************************************************************************)
\* dispatch, lines 17-21: a new request_id, set in the context variable, and
\* call_next runs the route, which awaits retrieve
Dispatch(p, q) ==
    /\ dispatch[p].pc # "call_next" \/ task[p].pc = "cancelled"
    /\ dispatch' = [dispatch EXCEPT ![p] =
                       [IdleDispatch EXCEPT !.pc = "call_next", !.request_id = nops + 1]]
    /\ session_id_var' = [session_id_var EXCEPT ![p] = <<"request_id:", nops + 1>>]
    /\ Call(p, q, DefaultLimit, TRUE)
    /\ UNCHANGED nfresh

\* dispatch, lines 21-30: call_next returns the route's response; the header
\* is added and the context variable cleared
DispatchReturn(p) ==
    /\ dispatch[p].pc = "call_next"
    /\ task[p].pc = "done"
    /\ dispatch' = [dispatch EXCEPT ![p].pc = "answered", ![p].status = 200,
                                    ![p].headers = {<<"X-Request-ID", dispatch[p].request_id>>}]
    /\ session_id_var' = [session_id_var EXCEPT ![p] = <<>>]
    /\ UNCHANGED <<exact_cache, semantic_cache, redis, db, task, clear_pc, nops, nfresh>>

\* dispatch, line 21: the route raised, call_next raises and the exception
\* leaves dispatch; the server's error handler answers 500
DispatchRaise(p) ==
    /\ dispatch[p].pc = "call_next"
    /\ task[p].pc = "error"
    /\ dispatch' = [dispatch EXCEPT ![p].pc = "answered", ![p].status = 500]
    /\ UNCHANGED <<exact_cache, semantic_cache, redis, db, task, clear_pc, nops, nfresh,
                   session_id_var>>

NextHttp ==
    \/ Quiet /\ nops < MaxOps /\ \E q \in Queries : Dispatch(1, q)
    \/ Step(1)
    \/ DispatchReturn(1)
    \/ DispatchRaise(1)

SpecHttp == Init /\ [][NextHttp]_vars

(***************************************************************************)
(* SpecConc: concurrent clients; the tasks interleave at their awaits,     *)
(* with each other and with clear-cache.  No collaborator fails.           *)
(***************************************************************************)
NextConc ==
    \/ \E p \in Procs : nops < MaxConcOps /\ CallAny(p)
    \/ \E p \in Procs : StepOk(p)
    \/ nops < MaxConcOps /\ ClearStart
    \/ FlushReply
    \/ ClearFinish

SpecConc == Init /\ [][NextConc]_vars

(***************************************************************************)
(* SpecCap: clients that ask query after query with the default limit, so  *)
(* that L1 and L3 fill up.  Client 1 asks a new query each time (1, 2, 3,  *)
(* ...) and, once L1 is full, repeats query 1 up to MaxRequery times;      *)
(* client 2 starts a call among the first MaxSlowOps operations, and its   *)
(* task may stay suspended at any await while client 1 goes on.            *)
(***************************************************************************)
CallFresh(p) ==
    /\ nfresh < MaxCapQueries
    /\ nfresh' = nfresh + 1
    /\ Call(p, nfresh + 1, DefaultLimit, TRUE)
    /\ UNCHANGED <<dispatch, session_id_var>>

CallAgain(p) ==
    /\ Len(exact_cache) >= exact_cache_max
    /\ nops - nfresh < MaxRequery
    /\ UNCHANGED nfresh
    /\ Call(p, 1, DefaultLimit, TRUE)
    /\ UNCHANGED <<dispatch, session_id_var>>

NextCap ==
    \/ CallFresh(1)
    \/ CallAgain(1)
    \/ StepOk(1)
    \/ nops < MaxSlowOps /\ CallFresh(2)
    \/ StepOk(2)

SpecCap == Init /\ [][NextCap]_vars

(***************************************************************************)
(* SpecCapSeq: one client that asks query after query with the default     *)
(* limit, one call at a time, and repeats query 1 once L1 is full.         *)
(***************************************************************************)
NextCapSeq ==
    \/ Quiet /\ CallFresh(1)
    \/ Quiet /\ CallAgain(1)
    \/ StepOk(1)

SpecCapSeq == Init /\ [][NextCapSeq]_vars

(***************************************************************************)
(* SpecSeq: as SpecCapSeq, without clear-cache and without faults: the     *)
(* client asks query after query, the write path stores a row between two  *)
(* calls, and query 1 is asked again, with either rerank flag, once L1 is  *)
(* full; MaxSeqOps bounds the number of stores and repeated calls.         *)
(***************************************************************************)
CallAgainEither(p) ==
    /\ Len(exact_cache) >= exact_cache_max
    /\ nops - nfresh < MaxSeqOps
    /\ UNCHANGED nfresh
    /\ \E rr \in BOOLEAN : Call(p, 1, DefaultLimit, rr)
    /\ UNCHANGED <<dispatch, session_id_var>>

NextSeq ==
    \/ Quiet /\ CallFresh(1)
    \/ Quiet /\ CallAgainEither(1)
    \/ StepOk(1)
    \/ Quiet /\ nops - nfresh < MaxSeqOps /\ Store("c")

SpecSeq == Init /\ [][NextSeq]_vars

(***************************************************************************)
(* SpecProbe: as SpecConc, with up to MaxProbeOps operations, so that a    *)
(* call can probe L1 for a key an earlier call admitted while another call *)
(* or a clear-cache is suspended.                                          *)
(***************************************************************************)
NextProbe ==
    \/ \E p \in Procs : nops < MaxProbeOps /\ CallAny(p)
    \/ \E p \in Procs : StepOk(p)
    \/ nops < MaxProbeOps /\ ClearStart
    \/ FlushReply
    \/ ClearFinish

SpecProbe == Init /\ [][NextProbe]_vars

(***************************************************************************)
(* Claims.                                                                 *)
(***************************************************************************)
Expensive == {"embed", "find_similar", "rerank"}

\* C1 (as stated): when retrieve(q, k) is called twice in succession with no
\* other operation in between and the first call returned, the second call
\* invokes neither the embedder, nor the vector store, nor the reranker.
C1_SecondCallInvokesNothing ==
    \A p \in Procs :
        task[p].follows \in {"done", "empty"} => task[p].called \cap Expensive = {}

\* C1 (amended): when retrieve(q, k) is called twice in succession with no
\* other operation in between and the first call returned otherwise than on
\* an empty embedding, the second call invokes neither the embedder, nor the
\* vector store, nor the reranker.
C1_RepeatInvokesNothing ==
    \A p \in Procs :
        task[p].follows = "done" => task[p].called \cap Expensive = {}

\* a second call has returned a non-empty list, after an earlier operation
C1_Witness ==
    \E p \in Procs :
        /\ task[p].follows = "done"
        /\ task[p].pc = "done"
        /\ Len(task[p].results) > 0
        /\ nops >= 3

\* C2: every list returned by retrieve(q, k), on any path, has length <= k,
\* and every list stored in L1 or L2 under the key of (q, k) has length <= k.
C2_ResultWithinLimit ==
    /\ \A p \in Procs : task[p].pc = "done" => Len(task[p].results) <= task[p].limit
    /\ \A i \in 1..Len(exact_cache) : Len(exact_cache[i][2]) <= exact_cache[i][1][3]
    /\ \A key \in DOMAIN redis : Len(json_loads(redis[key])) <= key[3]

\* C3: whenever retrieve(q, k, rerank=true) returns a list, the list is in the
\* order the reranker gives it for q (the caches hold post-rerank lists only).
C3_ReturnsPostRerank ==
    \A p \in Procs :
        task[p].pc = "done" /\ task[p].rerank
            => _rerank(task[p].query, task[p].results) = task[p].results

\* C4: when retrieve(q, k) returns a non-empty result, the key of (q, k) is
\* in L1, whatever other retrieve calls ran during its awaits.
C4_ReturnedKeyInL1 ==
    \A p \in Procs :
        task[p].pc = "done" /\ Len(task[p].results) > 0
            => cache_key(p) \in Keys(exact_cache)

\* C5: in every reachable state L1 holds at most 50 entries.
C5_ExactCacheBounded == Len(exact_cache) <= exact_cache_max

\* L1 is full and the key of the first query has been evicted
C5_Witness ==
    /\ Len(exact_cache) = exact_cache_max
    /\ nfresh > exact_cache_max
    /\ _make_cache_key(1, DefaultLimit) \notin Keys(exact_cache)

\* C6: in every reachable state L3 holds at most 10 entries.
C6_SemanticCacheBounded == Len(semantic_cache) <= semantic_cache_maxlen

\* L3 is full and the entry of the first query has been dropped
C6_Witness ==
    /\ Len(semantic_cache) = semantic_cache_maxlen
    /\ nfresh > semantic_cache_maxlen
    /\ \A i \in 1..Len(semantic_cache) : semantic_cache[i][1] # embed_text(1)

\* a call that has missed L1 and, so far, L2 and has at most found no embedding
MissedSoFar(t) ==
    \/ t.pc \in {"redis_get", "redis_got"}
    \/ t.pc = "done" /\ t.path = "empty"

\* C7: when retrieve misses L1 and L2 and the embedder returns nothing,
\* retrieve returns the empty list, the vector store and the reranker are not
\* called, and no step of the call changes L1, L2 or L3.
C7_EmptyEmbeddingReturnsEmpty ==
    /\ [](\A p \in Procs :
            task[p].pc = "done" /\ task[p].path = "empty"
                => /\ task[p].results = <<>>
                   /\ task[p].called \cap {"find_similar", "rerank"} = {})
    /\ [][\A p \in Procs :
            task'[p] # task[p] /\ MissedSoFar(task'[p])
                => UNCHANGED <<exact_cache, redis, semantic_cache>>]_vars

\* a call has returned on an empty embedding while the caches held entries
C7_Witness ==
    \E p \in Procs :
        /\ task[p].pc = "done"
        /\ task[p].path = "empty"
        /\ Len(exact_cache) > 0
        /\ Len(semantic_cache) > 0
        /\ DOMAIN redis # {}

\* C8: when the embed call raises, retrieve does not fail: it returns the
\* empty list.
C8_EmbedFaultSwallowed ==
    \A p \in Procs :
        task[p].raised = "embed" => task[p].pc = "done" /\ task[p].results = <<>>

\* C9: a failure of the redis get or of the redis set never makes retrieve
\* fail.
C9_RedisFailureNeverFails ==
    \A p \in Procs :
        task[p].pc = "error" => task[p].raised \notin {"redis_get", "redis_set"}

\* C10: after a retrieve call is cancelled at one of its awaits, none of L1,
\* L2, L3 contains an entry written by that call.
C10_CancelledLeavesNothing ==
    \A p \in Procs :
        task[p].pc = "cancelled"
            => /\ ~("L1" \in task[p].wrote /\ cache_key(p) \in Keys(exact_cache))
               /\ ~("L2" \in task[p].wrote /\ cache_key(p) \in DOMAIN redis)
               /\ ~("L3" \in task[p].wrote
                       /\ \E i \in 1..Len(semantic_cache) :
                             semantic_cache[i] = <<task[p].query_vector, task[p].results>>)

\* a call that has not reached a rerank or a cache write yet
BeforeRerank(t) == t.pc \in {"redis_get", "redis_got", "find_similar", "found"}

\* C11: when rerank is enabled and the reranker raises, on the L3-hit path or
\* on the full-miss path, retrieve ends in an error, it returns no list, and
\* no step of that call changes L1, L2 or L3.
C11_RerankFaultPropagates ==
    /\ [](\A p \in Procs :
            task[p].raised = "rerank"
                => task[p].pc = "error" /\ task[p].rerank /\ task[p].wrote = {})
    /\ [][\A p \in Procs :
            task'[p] # task[p] /\ (BeforeRerank(task'[p]) \/ task'[p].raised = "rerank")
                => UNCHANGED <<exact_cache, redis, semantic_cache>>]_vars

\* the reranker has raised on an L3 hit, with entries in L1, L2 and L3
C11_Witness ==
    \E p \in Procs :
        /\ task[p].raised = "rerank"
        /\ task[p].pc = "error"
        /\ task[p].path = "L3"
        /\ Truthy(semantic_cache_result(p))
        /\ Len(exact_cache) > 0
        /\ DOMAIN redis # {}

\* the reranker has raised on a full miss, after the store answered
C11_WitnessMiss ==
    \E p \in Procs :
        /\ task[p].raised = "rerank"
        /\ task[p].pc = "error"
        /\ task[p].path = "miss"
        /\ Len(task[p].results) > 0

\* a call on the full-miss path up to the await of find_similar
BeforeFetch(t) ==
    \/ t.pc \in {"redis_get", "redis_got"}
    \/ t.pc = "find_similar" /\ t.path = "miss"

\* C12: when the vector-store query fails during a full miss, retrieve ends
\* in an error and no step of that call changes L1, L2 or L3 (nothing is
\* admitted before the fetch succeeds).
C12_StoreFaultPropagates ==
    /\ [](\A p \in Procs :
            task[p].raised = "find_similar"
                => /\ task[p].pc = "error"
                   /\ task[p].path = "miss"
                   /\ task[p].wrote = {}
                   /\ "rerank" \notin task[p].called)
    /\ [][\A p \in Procs :
            task'[p] # task[p]
              /\ (BeforeFetch(task'[p]) \/ task'[p].raised = "find_similar")
                => UNCHANGED <<exact_cache, redis, semantic_cache>>]_vars

\* the vector-store query has failed on a full miss, with entries in L1, L2, L3
C12_Witness ==
    \E p \in Procs :
        /\ task[p].raised = "find_similar"
        /\ task[p].pc = "error"
        /\ "find_similar" \in task[p].called
        /\ Len(exact_cache) > 0
        /\ Len(semantic_cache) > 0
        /\ DOMAIN redis # {}

\* C13: a retrieval request with limit <= 0 is rejected at the boundary: it
\* calls no collaborator (redis, embedder, vector store, reranker) and writes
\* no entry to L1, L2 or L3.
C13_InvalidLimitRejected ==
    \A p \in Procs :
        task[p].pc # "idle" /\ task[p].limit <= 0
            => /\ task[p].called = {}
               /\ task[p].wrote = {}
               /\ \A i \in 1..Len(exact_cache) : exact_cache[i][1][3] > 0
               /\ \A key \in DOMAIN redis : key[3] > 0

\* C14: when the clear-cache operation completes, L1, L2 and L3 are all
\* empty, for every interleaving of clear-cache with concurrent retrieve
\* calls.
C14_ClearLeavesAllEmpty ==
    [][clear_pc = "flushed" /\ clear_pc' = "idle"
          => /\ exact_cache' = <<>>
             /\ semantic_cache' = <<>>
             /\ DOMAIN redis' = {}]_vars

\* C15: with one operation running at a time, when retrieve(q, k) misses L1
\* and L2 holds a value under the key,
\* retrieve returns the JSON-decoded L2 value, L1 then holds the key with that
\* value as its most recent entry, the embedder, the vector store and the
\* reranker are not called, and L2 and L3 are unchanged.
C15_L2HitPromotes ==
    /\ [](\A p \in Procs :
            task[p].pc = "redis_got"
                => task[p].cached = IF cache_key(p) \in DOMAIN redis
                                    THEN redis[cache_key(p)] ELSE None)
    /\ [][\A p \in Procs :
            /\ task[p].pc = "redis_got"
            /\ cache_key(p) \in DOMAIN redis
            /\ task'[p] # task[p]
            /\ task'[p].pc # "cancelled"
            => /\ task'[p].pc = "done"
               /\ task'[p].results = json_loads(redis[cache_key(p)])
               /\ Len(exact_cache') > 0
               /\ exact_cache'[Len(exact_cache')] = <<cache_key(p), task'[p].results>>
               /\ task'[p].called = {"redis_get"}
               /\ UNCHANGED <<redis, semantic_cache>>]_vars

\* an L2 hit has returned a non-empty list and was promoted to an L1 that
\* held another key, while L3 held an entry
C15_Witness ==
    \E p \in Procs :
        /\ task[p].pc = "done"
        /\ task[p].path = "L2"
        /\ Len(task[p].results) > 0
        /\ Len(exact_cache) >= 2
        /\ Len(semantic_cache) > 0

\* C16: on an L3 hit for retrieve(q, k) with cached list r, the call's list
\* is the rerank of r for q when rerank is enabled (r itself when disabled),
\* it is promoted to L1 under the key and L3 is left as it was; when the call
\* returns, L1 and L2 both hold the returned list under the key.
C16_L3HitPromotes ==
    /\ [][\A p \in Procs :
            /\ task[p].pc = "redis_got"
            /\ ~Truthy(task[p].cached)
            /\ semantic_cache_result(p) # None
            /\ task'[p] # task[p]
            => /\ task'[p].results = IF task[p].rerank
                                      THEN _rerank(task[p].query, semantic_cache_result(p))
                                      ELSE semantic_cache_result(p)
               /\ cache_key(p) \in Keys(exact_cache')
               /\ Lookup(exact_cache', cache_key(p)) = task'[p].results
               /\ semantic_cache' = semantic_cache]_vars
    /\ [](\A p \in Procs :
            task[p].pc = "done" /\ task[p].path = "L3"
                => /\ cache_key(p) \in Keys(exact_cache)
                   /\ Lookup(exact_cache, cache_key(p)) = task[p].results
                   /\ cache_key(p) \in DOMAIN redis
                   /\ redis[cache_key(p)] = json_dumps(task[p].results))

\* what a full miss of the call of p returns: the store's top-k for the query
\* vector, reranked for the query when rerank is enabled
FullMissResult(p) ==
    LET fetched == find_similar(embed_text(task[p].query), db, task[p].limit)
    IN  IF task[p].rerank THEN _rerank(task[p].query, fetched) ELSE fetched

\* C17: with one operation running at a time, on a full miss, retrieve(q, k)
\* returns R, the store's top-k for the
\* query vector v (reranked for q when rerank is enabled), and when it returns
\* L1 holds R under the key, L2 holds json(R) under the key and the newest
\* entry of L3 is (v, R).
C17_FullMissAdmitsEverywhere ==
    \A p \in Procs :
        task[p].pc = "done" /\ task[p].path = "miss"
            => /\ task[p].results = FullMissResult(p)
               /\ cache_key(p) \in Keys(exact_cache)
               /\ Lookup(exact_cache, cache_key(p)) = task[p].results
               /\ cache_key(p) \in DOMAIN redis
               /\ redis[cache_key(p)] = json_dumps(task[p].results)
               /\ Len(semantic_cache) > 0
               /\ semantic_cache[Len(semantic_cache)]
                      = <<embed_text(task[p].query), task[p].results>>

\* a full miss has returned two documents in an order the reranker changed,
\* admitted after an earlier entry of L3
C17_Witness ==
    \E p \in Procs :
        /\ task[p].pc = "done"
        /\ task[p].path = "miss"
        /\ task[p].called = {"redis_get", "embed", "find_similar", "rerank", "redis_set"}
        /\ Len(task[p].results) = 2
        /\ task[p].results # find_similar(embed_text(task[p].query), db, task[p].limit)
        /\ Len(semantic_cache) >= 2

\* the entries of c under the keys other than k, in order
Others(c, k) == SelectSeq(c, LAMBDA e : e[1] # k)

\* the call of p has just used its key in L1: an L1 hit, or a set into L1
UsesL1(p) ==
    /\ task'[p] # task[p]
    /\ \/ task'[p].pc = "done" /\ task'[p].path = "L1"
       \/ "L1" \in task'[p].wrote /\ "L1" \notin task[p].wrote

\* C18: L1 is ordered by last use (insert, overwrite or hit).  A use of a key
\* makes its entry the most recent one; when the key is new and L1 already
\* holds 50 entries, exactly the least recently used entry is removed and
\* the other 49 and the new one remain.  In particular 51 retrieves of 51
\* distinct queries leave 50 entries, with only the first query's key absent.
C18_EvictsLeastRecentlyUsed ==
    /\ [][\A p \in Procs :
            UsesL1(p) =>
                LET k == _make_cache_key(task'[p].query, task'[p].limit)
                    rest == Others(exact_cache, k)
                IN  exact_cache' =
                        Append(IF Len(rest) >= exact_cache_max THEN Tail(rest) ELSE rest,
                               <<k, task'[p].results>>)]_vars
    /\ [][exact_cache' # exact_cache => \E p \in Procs : UsesL1(p)]_vars
    /\ [](nfresh = exact_cache_max + 1 /\ nops = nfresh /\ Quiet
            => /\ Len(exact_cache) = exact_cache_max
               /\ Keys(exact_cache) = {_make_cache_key(q, DefaultLimit) :
                                            q \in 2..(exact_cache_max + 1)})

\* query 1 was hit in the full L1 and the next new key then evicted the key
\* of query 2
C18_Witness ==
    /\ Quiet
    /\ nfresh = exact_cache_max + 1
    /\ nops = nfresh + 1
    /\ Len(exact_cache) = exact_cache_max
    /\ _make_cache_key(1, DefaultLimit) \in Keys(exact_cache)
    /\ _make_cache_key(2, DefaultLimit) \notin Keys(exact_cache)

\* the call of p has just appended its entry to L3
AppendsL3(p) == "L3" \in task'[p].wrote /\ "L3" \notin task[p].wrote

\* C19: L3 changes only by an append at the tail; an append to an L3 that
\* already holds 10 entries drops exactly the head and keeps the order of the
\* others; L3 lookups and L3 hits leave L3 as it is.
C19_SemanticCacheFIFO ==
    /\ [][semantic_cache' # semantic_cache
            => \E p \in Procs :
                  /\ AppendsL3(p)
                  /\ semantic_cache' =
                        Append(IF Len(semantic_cache) >= semantic_cache_maxlen
                               THEN Tail(semantic_cache) ELSE semantic_cache,
                               <<task'[p].query_vector, task'[p].results>>)]_vars
    /\ [][\A p \in Procs :
            task'[p] # task[p] /\ "embed" \in task'[p].called /\ ~AppendsL3(p)
                => semantic_cache' = semantic_cache]_vars

\* an L3 hit has returned while L3 was full and had dropped its first entry
C19_Witness ==
    \E p \in Procs :
        /\ task[p].pc = "done"
        /\ task[p].path = "L3"
        /\ Len(semantic_cache) = semantic_cache_maxlen
        /\ semantic_cache[1][1] # embed_text(1)

\* the positions of the L3 entries whose similarity to v reaches the threshold
HitPositions(v) ==
    {i \in 1..Len(semantic_cache) : SimilarityReachesThreshold(v, semantic_cache[i][1])}

\* C20: the L3 lookup of v returns the result list of the first entry, in
\* insertion order, whose cosine similarity to v is >= 0.90, even when a
\* later entry is more similar; it returns None exactly when no entry
\* reaches 0.90.
C20_LookupReturnsFirstHit ==
    \A p \in Procs :
        task[p].pc = "looked_up" =>
            LET hits == HitPositions(task[p].query_vector)
            IN  /\ (task[p].results = None) <=> (hits = {})
                /\ hits # {} =>
                      \E i \in hits :
                          /\ \A j \in hits : i <= j
                          /\ task[p].results = semantic_cache[i][2]

\* the lookup has returned the list of the first entry within the threshold
\* while a later entry, with another list, is more similar to the vector
C20_Witness ==
    \E p \in Procs :
        /\ task[p].pc = "looked_up"
        /\ \E i, j \in HitPositions(task[p].query_vector) :
              /\ i < j
              /\ \A h \in HitPositions(task[p].query_vector) : i <= h
              /\ Closer(semantic_cache[j][1], semantic_cache[i][1], task[p].query_vector)
              /\ semantic_cache[i][2] # semantic_cache[j][2]
              /\ task[p].results = semantic_cache[i][2]

\* C21: the write path (embed-and-store) only appends a row to the vector
\* store and leaves L1, L2 and L3 unchanged, so a key cached before a store
\* keeps returning its cached list; and no step of a retrieve call, on any
\* path, adds, changes or removes a row of the vector store.
C21_WritesDoNotInvalidate ==
    /\ [][db' # db
            => /\ Len(db') = Len(db) + 1
               /\ SubSeq(db', 1, Len(db)) = db
               /\ UNCHANGED <<exact_cache, redis, semantic_cache>>]_vars
    /\ [][\A p \in Procs :
            task'[p] # task[p] /\ task'[p].pc # "idle" => db' = db]_vars
    /\ [](\A p \in Procs :
            task[p].pc = "done" /\ task[p].path = "L1"
                => task[p].results = Lookup(exact_cache, cache_key(p)))

\* after a store, an L1 hit has returned the list cached before the store,
\* which is no longer what the vector store would answer
C21_Witness ==
    \E p \in Procs :
        /\ task[p].pc = "done"
        /\ task[p].path = "L1"
        /\ Len(db) > Len(InitialRows)
        /\ {task[p].results[i] : i \in 1..Len(task[p].results)}
              # {FullMissResult(p)[i] : i \in 1..Len(FullMissResult(p))}

\* the number of occurrences of d in the list s
Count(s, d) == Cardinality({i \in 1..Len(s) : s[i] = d})

\* C22: the reranking step returns a permutation of its input: same length,
\* and every document occurs as often in the output as in the input, for
\* every query and every list, lists with duplicates and tied scores included.
C22_RerankIsPermutation ==
    [][\A p \in Procs :
          task[p].pc = "rerank" /\ task'[p].pc = "reranked"
              => /\ Len(task'[p].results) = Len(task[p].results)
                 /\ \A d \in Docs :
                       Count(task'[p].results, d) = Count(task[p].results, d)]_vars

\* a list of three documents has been reranked that holds a duplicate and two
\* different documents with tied scores
C22_Witness ==
    \E p \in Procs :
        /\ task[p].pc = "reranked"
        /\ Len(task[p].results) = MaxDocs
        /\ \E d \in Docs : Count(task[p].results, d) >= 2
        /\ \E d1, d2 \in Docs :
              /\ d1 # d2
              /\ Count(task[p].results, d1) > 0
              /\ Count(task[p].results, d2) > 0
              /\ Score(task[p].query, d1) = Score(task[p].query, d2)

\* s is the JSON text of an array of document strings
IsJsonStringArray(s) ==
    /\ Len(s) >= 2
    /\ s[1] = "["
    /\ s[Len(s)] = "]"
    /\ \A i \in 1..Len(json_loads(s)) : json_loads(s)[i] \in Docs
    /\ \A i \in 2..(Len(s) - 1) : (i % 2 = 1) => s[i] = ","
    /\ Len(s) > 2 => Len(s) % 2 = 1

\* C23: every value stored in L2 by the pipeline JSON-decodes to an array of
\* strings, and decoding it yields exactly the list that the retrieve call
\* which stored it returns.
C23_L2ValuesRoundTrip ==
    /\ \A key \in DOMAIN redis : IsJsonStringArray(redis[key])
    /\ \A p \in Procs :
          "L2" \in task[p].wrote /\ task[p].pc \in {"redis_set_done", "done"}
              => /\ cache_key(p) \in DOMAIN redis
                 /\ json_loads(redis[cache_key(p)]) = task[p].results

\* a call has returned a list of two documents that it stored in L2
C23_Witness ==
    \E p \in Procs :
        /\ task[p].pc = "done"
        /\ "L2" \in task[p].wrote
        /\ Len(task[p].results) = 2
        /\ task[p].results[1] # task[p].results[2]
        /\ redis[cache_key(p)] = <<"[", task[p].results[1], ",", task[p].results[2], "]">>

\* C24: every response carries an X-Request-ID header, the response of a
\* request whose handler failed included, and once a request has been
\* answered the context variable no longer holds that request's id.
C24_EveryResponseHasRequestId ==
    \A p \in Procs :
        dispatch[p].pc = "answered"
            => /\ <<"X-Request-ID", dispatch[p].request_id>> \in dispatch[p].headers
               /\ session_id_var[p] # <<"request_id:", dispatch[p].request_id>>

CalledBefore(p) == IF nops' # nops THEN {} ELSE task[p].called

C26_StoreOnlyOnL3Miss ==
    /\ \A p \in Procs :
          task[p].pc = "find_similar" => HitPositions(task[p].query_vector) = {}
    /\ \A i, j \in 1..Len(semantic_cache) :
          i < j => ~SimilarityReachesThreshold(semantic_cache[j][1], semantic_cache[i][1])

\* C27: an L1 hit and an L1 set of a key already present both move the key
\* to the most recent position, without changing the number of entries or
\* the order of the others; the set replaces the value and evicts nothing.
\* Hence, after a hit on the oldest key, the next eviction removes the
\* second-oldest key, not the one just hit.
C27_PresentKeyMovesToEnd ==
    /\ [][\A p \in Procs :
            /\ nops' # nops
            /\ task'[p].pc \in {"l1_hit", "l1_set"}
            /\ _make_cache_key(task'[p].query, task'[p].limit) \in Keys(exact_cache)
            => LET k == _make_cache_key(task'[p].query, task'[p].limit)
               IN  /\ Len(exact_cache') = Len(exact_cache)
                   /\ exact_cache' =
                         Append(Others(exact_cache, k),
                                <<k, IF task'[p].pc = "l1_hit"
                                     THEN Lookup(exact_cache, k) ELSE task'[p].results>>)]_vars
    /\ [][\A p \in Procs :
            /\ task[p].pc = "l1_hit"
            /\ cache_key(p) = exact_cache[Len(exact_cache)][1]
            /\ task'[p].pc = "l1_set"
            /\ _make_cache_key(task'[p].query, task'[p].limit) \notin Keys(exact_cache)
            /\ Len(exact_cache) = exact_cache_max
            => /\ cache_key(p) \in Keys(exact_cache')
               /\ exact_cache[1][1] \notin Keys(exact_cache')
               /\ Len(exact_cache') = exact_cache_max]_vars

\* the oldest key of a full L1 was hit and the set of a new key then evicted
\* the second-oldest key
C27_Witness ==
    \E p \in Procs :
        /\ task[p].pc = "l1_set"
        /\ nops = MaxL1Ops
        /\ Len(exact_cache) = exact_cache_max
        /\ cache_key(p) = _make_cache_key(exact_cache_max + 1, DefaultLimit)
        /\ _make_cache_key(1, DefaultLimit) \in Keys(exact_cache)
        /\ _make_cache_key(2, DefaultLimit) \notin Keys(exact_cache)

\* the vectors of norm zero
ZeroNorm(v) == v[1] = 0 /\ v[2] = 0

NonZeroEntries(d) == SelectSeq(d, LAMBDA e : ~ZeroNorm(e[1]))

\* C28: cosine similarity is 0 whenever either vector has norm zero, so the
\* lookup never returns an L3 entry with a zero vector (it returns what it
\* would return without those entries) and a zero query vector never hits;
\* a non-zero vector reaches the 0.90 threshold with itself, so the lookup
\* of a non-zero vector that is in L3 is a hit.  Vectors are taken in exact
\* arithmetic.
C28_ZeroNormNeverHits ==
    \A p \in Procs :
        task[p].pc = "looked_up" =>
            /\ ZeroNorm(task[p].query_vector) => task[p].results = None
            /\ task[p].results =
                  _find_semantic_cache_hit(NonZeroEntries(semantic_cache),
                                           task[p].query_vector)
            /\ \A i \in 1..Len(semantic_cache) :
                  ~ZeroNorm(semantic_cache[i][1]) =>
                      /\ SimilarityReachesThreshold(semantic_cache[i][1],
                                                    semantic_cache[i][1])
                      /\ semantic_cache[i][1] = task[p].query_vector =>
                            task[p].results # None

\* the lookup has passed over a first entry with a zero vector and returned
\* the other list of a later entry, whose vector is the query vector
C28_Witness ==
    \E p \in Procs :
        /\ task[p].pc = "looked_up"
        /\ Len(semantic_cache) >= 2
        /\ ZeroNorm(semantic_cache[1][1])
        /\ semantic_cache[2][1] = task[p].query_vector
        /\ semantic_cache[1][2] # semantic_cache[2][2]
        /\ task[p].results = semantic_cache[2][2]

\* C29: in every reachable state, concurrent calls for one key included,
\* every key present in both L1 and L2 holds the same result list in both:
\* L1[key] equals the JSON-decoded L2[key].
C29_L1AgreesWithL2 ==
    \A k \in Keys(exact_cache) :
        k \in DOMAIN redis => Lookup(exact_cache, k) = json_loads(redis[k])

\* C30: in sequential execution with no collaborator failure and no
\* clear-cache, once retrieve(q, k) has returned a list R through the L2-hit,
\* L3-hit or full-miss path, every later retrieve(q, k), with either rerank
\* flag, returns exactly R, whatever calls for other keys, L1 evictions, L3
\* evictions or vector-store writes come in between.  R is what L2 holds
\* under the key when such a call returns; what L2 holds under a key never
\* changes; and every call that returns while L2 holds the key returns what
\* L2 holds.
C30_ReturnedListIsStable ==
    /\ [](\A p \in Procs :
            task[p].pc = "done" /\ task[p].path \in {"L2", "L3", "miss"}
                => cache_key(p) \in DOMAIN redis)
    /\ [][\A key \in DOMAIN redis :
            key \in DOMAIN redis' /\ redis'[key] = redis[key]]_vars
    /\ [](\A p \in Procs :
            task[p].pc = "done" /\ cache_key(p) \in DOMAIN redis
                => task[p].results = json_loads(redis[cache_key(p)]))

\* query 1 was answered before a row was stored and fell out of L1 and L3;
\* asked again without reranking it is answered from L2 with the earlier
\* list, which lacks the new row
C30_Witness ==
    \E p \in Procs :
        /\ task[p].pc = "done"
        /\ task[p].path = "L2"
        /\ task[p].query = 1
        /\ ~task[p].rerank
        /\ Len(exact_cache) = exact_cache_max
        /\ HitPositions(embed_text(task[p].query)) = {}
        /\ Len(db) > Len(InitialRows)
        /\ Len(task[p].results) = Len(InitialRows)

\* C31: in every reachable state no two entries of L3 have cosine similarity
\* >= 0.90 to each other: L3 never holds duplicate or near-duplicate vectors.
C31_NoNearDuplicatesInL3 ==
    \A i, j \in 1..Len(semantic_cache) :
        i # j => ~SimilarityReachesThreshold(semantic_cache[i][1], semantic_cache[j][1])

\* the call of p starts in this step: its L1 probe runs
Probes(p) == nops' # nops /\ Finished(p) /\ task'[p].pc # "idle"

\* C32: the L1 probe (membership test, recency refresh, read) runs with no
\* suspension point inside it, so under every interleaving of retrieve calls
\* with each other and with clear-cache, a probe that finds the key returns
\* the complete value L1 held under the key, leaves the key most recent and
\* never fails on a key removed in between; a probe that does not find the
\* key leaves L1 alone and goes on to redis.
C32_ProbeIsAtomic ==
    /\ [][\A p \in Procs :
            Probes(p) =>
                LET k == _make_cache_key(task'[p].query, task'[p].limit)
                IN  IF k \in Keys(exact_cache)
                    THEN /\ task'[p].pc = "done"
                         /\ task'[p].path = "L1"
                         /\ task'[p].raised = "none"
                         /\ \E i \in 1..Len(exact_cache) :
                               exact_cache[i] = <<k, task'[p].results>>
                         /\ Len(exact_cache') = Len(exact_cache)
                         /\ exact_cache'[Len(exact_cache')] = <<k, task'[p].results>>
                    ELSE /\ task'[p].pc = "redis_get"
                         /\ exact_cache' = exact_cache]_vars
    /\ [](\A p \in Procs : task[p].pc # "error" /\ task[p].raised = "none")

\* a call has hit L1 while a clear-cache, which has flushed redis and not yet
\* emptied L1, and the call of the other client are suspended
C32_Witness ==
    \E p, o \in Procs :
        /\ task[p].pc = "done"
        /\ task[p].path = "L1"
        /\ clear_pc = "flushed"
        /\ ~Finished(o)
        /\ cache_key(p) \in Keys(exact_cache)
        /\ exact_cache[Len(exact_cache)] = <<cache_key(p), task[p].results>>
        /\ cache_key(p) \notin DOMAIN redis

====
